---- MODULE Spec2Model ----
(***************************************************************************)
(* Model of the customer-service chat agent (server agent module):         *)
(*   retryWithBackoff  - the retry wrapper around one model call           *)
(*   itemLookupTool    - the item_lookup tool handler                      *)
(*   callAgent         - one turn of the agent graph (agent <-> tools)     *)
(*                                                                         *)
(* Three specifications share the definitions below:                       *)
(*   SpecRetry  - retryWithBackoff alone, for every maxRetries in          *)
(*                0..MaxRetriesBound and every outcome of the operation    *)
(*   SpecLookup - item_lookup alone, over small inventories and queries    *)
(*   Spec       - one turn of callAgent, as it is wired in the source      *)
(***************************************************************************)
EXTENDS Integers, Sequences, FiniteSets, TLC

\* ------------------------------------------------------------------ bounds
\* largest maxRetries argument explored for retryWithBackoff
MaxRetriesBound == 6
\* largest number of tool-call requests in one model response
MaxToolCalls == 2
\* largest result limit n handed to item_lookup
MaxN == 2
\* longest query handed to item_lookup
MaxQueryLen == 2
\* most messages submitted in one widget session
MaxSubmits == 3

\* ------------------------------------------------------- program constants
\* default value of the maxRetries parameter
DefaultMaxRetries == 3
\* base of the exponential backoff, in milliseconds
BaseDelay == 1000
\* cap of the backoff delay, in milliseconds
MaxDelay == 30000
\* the HTTP status the wrapper treats as a rate limit
RateLimitStatus == 429
\* the HTTP status callAgent reports as an authentication failure
AuthStatus == 401
\* recursionLimit handed to app.invoke
RecursionLimit == 15

None == [kind |-> "none"]

Min(a, b) == IF a <= b THEN a ELSE b

\* ------------------------------------------------------------ thrown values
\* What an operation can throw: an Error object or some other value, with or
\* without a status property.  `at` is the attempt that raised it (identity).
ThrownKinds ==
    { [isError |-> TRUE,  hasStatus |-> TRUE,  status |-> 429],
      [isError |-> TRUE,  hasStatus |-> TRUE,  status |-> 401],
      [isError |-> TRUE,  hasStatus |-> TRUE,  status |-> 500],
      [isError |-> TRUE,  hasStatus |-> FALSE, status |-> 0],
      [isError |-> FALSE, hasStatus |-> TRUE,  status |-> 429] }

Thrown(k, a) ==
    [kind |-> "thrown", isError |-> k.isError, hasStatus |-> k.hasStatus,
     status |-> k.status, msg |-> "provider", at |-> a]

\* the error of the statement after the for loop
MaxRetriesExceeded ==
    [kind |-> "thrown", isError |-> TRUE, hasStatus |-> FALSE, status |-> 0,
     msg |-> "Max retries exceeded", at |-> 0]

\* error instanceof Error && "status" in error && error.status === 429
IsRateLimit(e) ==
    e.isError /\ e.hasStatus /\ e.status = RateLimitStatus

\* ------------------------------------------------------------ model replies
FinalContents == {"answer-a", "answer-b"}

AIMessage(k, c) == [role |-> "ai", tool_calls |-> k, content |-> c]
HumanMessage == [role |-> "human", tool_calls |-> 0, content |-> "question"]
ToolMessage(c) == [role |-> "tool", tool_calls |-> 0, content |-> c]

\* a response asks for one tool call, or for a batch of the largest size
ToolCallCounts == {1, MaxToolCalls}

ModelResponses ==
    { AIMessage(k, "") : k \in ToolCallCounts } \cup
    { AIMessage(0, c) : c \in FinalContents }

\* outcomes of one invocation of the wrapped operation fn()
Resolved(v) == [kind |-> "ok", value |-> v]
FnOutcomes(a) ==
    { Resolved(v) : v \in ModelResponses } \cup
    { Thrown(k, a) : k \in ThrownKinds }

VARIABLES
    \* ---- retryWithBackoff
    maxRetries,     \* the maxRetries argument of the running call
    attempt,        \* the loop variable
    rpc,            \* "idle" | "loop" | "sleep" | "returned" | "thrown"
    rvalue,         \* value returned / error thrown by the wrapper
    fnCalls,        \* invocations of fn() made by the running call
    delays,         \* backoff delays taken by the running call
    lastOut,        \* outcome of the latest invocation of fn()
    \* ---- callAgent
    pc,             \* "idle" | "tick" | "agent" | "tools" | "done" | "failed"
    node,           \* the graph node that ran last
    messages,       \* state.messages of the thread (checkpointed)
    base,           \* Len(messages) when the turn started
    steps,          \* graph nodes executed by this app.invoke
    toolIdx,        \* tool calls of the last AI message handled so far
    toolOut,        \* ToolMessages produced by the running tool node
    reply,          \* value returned by callAgent
    failure,        \* error thrown by callAgent
    modelInvocations, \* model.invoke calls of the turn
    toolInvocations,  \* item_lookup handler invocations of the turn
    modelFailures,  \* model.invoke calls of the turn that rejected
    \* ---- itemLookupTool
    collection,     \* the documents of the items collection
    lookupArgs,     \* arguments of the latest handler invocation
    lookupOut,      \* outcome of the latest handler invocation
    lookupCalls,    \* provider calls made by the latest invocation
    \* ---- ChatWidget
    isOpen,         \* useState(false)
    inputValue,     \* useState("")
    wMessages,      \* useState([]): the messages shown
    threadId,       \* useState(null)
    requests,       \* the requests sent by handleMessage, in order
    pending,        \* the requests whose fetch has not settled
    succeeded,      \* responses handled by the success path
    failed          \* requests that ended in the catch block

retryVars == <<maxRetries, attempt, rpc, rvalue, fnCalls, delays, lastOut>>
agentVars == <<pc, node, messages, base, steps, toolIdx, toolOut, reply,
               failure, modelInvocations, toolInvocations, modelFailures>>
lookupVars == <<collection, lookupArgs, lookupOut, lookupCalls>>
widgetVars == <<isOpen, inputValue, wMessages, threadId, requests, pending,
                succeeded, failed>>
vars == <<retryVars, agentVars, lookupVars, widgetVars>>

\* ======================================================= retryWithBackoff
\* faulty variant: the exponent counts the retries instead of the attempts
BackoffDelay_fromOne(a) == Min(BaseDelay * (2 ^ (a - 1)), MaxDelay)

\* faulty variant: the delay is computed in seconds and waited in milliseconds
BackoffDelay_seconds(a) == Min(2 ^ a, MaxDelay)

\* const delay = Math.min(1000 * Math.pow(2, attempt), 30000)
BackoffDelay(a) == Min(BaseDelay * (2 ^ a), MaxDelay)

\* faulty variants of the retry condition
ShouldRetry_anyError(e, a, m) == a < m
ShouldRetry_noBudget(e, a, m) == IsRateLimit(e)
ShouldRetry_short(e, a, m) == IsRateLimit(e) /\ a < m - 1

\* the condition of the if inside the catch block
ShouldRetry(e, a, m) == IsRateLimit(e) /\ a < m

\* faulty variant: the attempt counter outlives the call
RetryEnter_shared(m) ==
    /\ maxRetries' = m
    /\ attempt' = 1 + modelFailures
    /\ rpc' = "loop"
    /\ rvalue' = None
    /\ fnCalls' = 0
    /\ delays' = <<>>
    /\ lastOut' = None

\* retryWithBackoff(fn, m) is called
RetryEnter(m) ==
    /\ maxRetries' = m
    /\ attempt' = 1
    /\ rpc' = "loop"
    /\ rvalue' = None
    /\ fnCalls' = 0
    /\ delays' = <<>>
    /\ lastOut' = None

\* one iteration of the for loop: fn() is awaited and yields `out`
RetryAttempt(out) ==
    /\ rpc = "loop"
    /\ attempt <= maxRetries
    /\ fnCalls' = fnCalls + 1
    /\ lastOut' = out
    /\ IF out.kind = "ok"
         THEN /\ rpc' = "returned"
              /\ rvalue' = out.value
              /\ UNCHANGED delays
         ELSE IF ShouldRetry(out, attempt, maxRetries)
                THEN /\ rpc' = "sleep"
                     /\ delays' = Append(delays,
                                    [before |-> attempt + 1,
                                     ms |-> BackoffDelay(attempt)])
                     /\ UNCHANGED rvalue
                ELSE /\ rpc' = "thrown"
                     /\ rvalue' = out
                     /\ UNCHANGED delays
    /\ UNCHANGED <<maxRetries, attempt>>

\* the timer fires; `continue` runs attempt++ and re-tests the loop condition
RetryWake ==
    /\ rpc = "sleep"
    /\ attempt' = attempt + 1
    /\ rpc' = "loop"
    /\ UNCHANGED <<maxRetries, rvalue, fnCalls, delays, lastOut>>

\* the call has resolved and its frame is gone
RetryLeave ==
    /\ maxRetries' = DefaultMaxRetries
    /\ attempt' = 1
    /\ rpc' = "idle"
    /\ rvalue' = None
    /\ fnCalls' = 0
    /\ delays' = <<>>
    /\ lastOut' = None

\* the loop condition fails: throw new Error("Max retries exceeded")
RetryLoopExit ==
    /\ rpc = "loop"
    /\ attempt > maxRetries
    /\ rpc' = "thrown"
    /\ rvalue' = MaxRetriesExceeded
    /\ UNCHANGED <<maxRetries, attempt, fnCalls, delays, lastOut>>

\* ---------------------------------------------- SpecRetry: the wrapper alone
RetryCall ==
    /\ rpc \in {"idle", "returned", "thrown"}
    /\ \E m \in 0..MaxRetriesBound : RetryEnter(m)
    /\ UNCHANGED <<agentVars, lookupVars, widgetVars>>

RetryFn ==
    /\ \E out \in FnOutcomes(attempt) : RetryAttempt(out)
    /\ UNCHANGED <<agentVars, lookupVars, widgetVars>>

RetryTimer ==
    /\ RetryWake
    /\ UNCHANGED <<agentVars, lookupVars, widgetVars>>

RetryFallThrough ==
    /\ RetryLoopExit
    /\ UNCHANGED <<agentVars, lookupVars, widgetVars>>

InitRetryVars ==
    /\ maxRetries = DefaultMaxRetries
    /\ attempt = 1
    /\ rpc = "idle"
    /\ rvalue = None
    /\ fnCalls = 0
    /\ delays = <<>>
    /\ lastOut = None

InitAgentVars ==
    /\ pc = "idle"
    /\ node = "__start__"
    /\ messages = <<>>
    /\ base = 0
    /\ steps = 0
    /\ toolIdx = 0
    /\ toolOut = <<>>
    /\ reply = None
    /\ failure = None
    /\ modelInvocations = 0
    /\ toolInvocations = 0
    /\ modelFailures = 0

InitLookupVars ==
    /\ collection = <<>>
    /\ lookupArgs = None
    /\ lookupOut = None
    /\ lookupCalls = <<>>

InitWidgetVars ==
    /\ isOpen = FALSE
    /\ inputValue = ""
    /\ wMessages = <<>>
    /\ threadId = None
    /\ requests = <<>>
    /\ pending = {}
    /\ succeeded = 0
    /\ failed = 0

InitRetry ==
    InitRetryVars /\ InitAgentVars /\ InitLookupVars /\ InitWidgetVars

NextRetry == RetryCall \/ RetryFn \/ RetryTimer \/ RetryFallThrough

SpecRetry == InitRetry /\ [][NextRetry]_vars

\* ========================================================= itemLookupTool
\* Text is a sequence of characters.  The documents carry the four fields the
\* text search looks at; categories is an array of strings.
Chars == {"a", "A", "b"}

Lower(c) == IF c = "A" THEN "a" ELSE c
LowerText(t) == [i \in DOMAIN t |-> Lower(t[i])]

Catalogue ==
    << [id |-> 1,
        item_name |-> <<"A", "b">>,
        item_description |-> <<"b", "b">>,
        categories |-> << <<"b">> >>,
        embedding_text |-> <<"A", "b", "b", "b">>],
       [id |-> 2,
        item_name |-> <<"b">>,
        item_description |-> <<"b", "a">>,
        categories |-> << <<"b">>, <<"a", "a">> >>,
        embedding_text |-> <<"b", "b", "a">>],
       [id |-> 3,
        item_name |-> <<"b", "b">>,
        item_description |-> <<"b">>,
        categories |-> << >>,
        embedding_text |-> <<"b", "b", "b">>] >>

\* the states of the items collection: empty, or seeded with some documents
Inventories == { SubSeq(Catalogue, 1, k) : k \in 0..Len(Catalogue) }

\* the non-empty queries
Queries == UNION { [1..l -> Chars] : l \in 1..MaxQueryLen }

\* { field: { $regex: query, $options: "i" } } on a string field: the query
\* (of literal characters) occurs in the field, letter case ignored
RegexMatch(text, q) ==
    \E i \in 1..(Len(text) - Len(q) + 1) :
        SubSeq(LowerText(text), i, i + Len(q) - 1) = LowerText(q)

\* the $or filter of the text search; an array field matches when one of its
\* elements does
MatchesText(doc, q) ==
    \/ RegexMatch(doc.item_name, q)
    \/ RegexMatch(doc.item_description, q)
    \/ \E j \in DOMAIN doc.categories : RegexMatch(doc.categories[j], q)
    \/ RegexMatch(doc.embedding_text, q)

Take(sq, n) == SubSeq(sq, 1, Min(n, Len(sq)))

\* collection.find({ $or: [...] }).limit(n).toArray()
TextSearch(coll, q, n) ==
    Take(SelectSeq(coll, LAMBDA d : MatchesText(d, q)), n)

\* What similaritySearchWithScore(query, n) can resolve to: the ranking is the
\* provider's, so any list of at most n distinct documents of the collection
\* (each paired with its score, here its rank).
Injective(f) == \A i, j \in DOMAIN f : f[i] = f[j] => i = j
VectorResults(coll, n) ==
    UNION { { [i \in 1..l |-> [doc |-> coll[f[i]], score |-> i]] :
                f \in { g \in [1..l -> DOMAIN coll] : Injective(g) } } :
            l \in 0..Min(n, Len(coll)) }

\* How the provider calls of one handler invocation turn out, should they be
\* made: each may reject; the vector search resolves to `vector`.
Providers(coll, n) ==
    [count : BOOLEAN, sample : BOOLEAN, vectorOk : BOOLEAN,
     vector : VectorResults(coll, n), textOk : BOOLEAN]

ProviderCall(name, ok, out) == [call |-> name, ok |-> ok, out |-> out]

\* the handler returns JSON.stringify(obj): the text is represented by the
\* object it encodes
Returned(obj) == [kind |-> "returned", value |-> obj]

EmptyInventoryResult ==
    [error |-> "No items found in inventory",
     message |-> "The inventory database appears to ne empty",
     count |-> 0]

\* faulty variant: the handler has no catch block
CatchLookup_rethrow(q, name) ==
    [kind |-> "thrown", isError |-> TRUE, hasStatus |-> FALSE, status |-> 0,
     msg |-> name, at |-> 0]

\* the catch block of the handler; the error message names the failed call
CatchLookup(q, name) ==
    Returned([error |-> "Failde to seach inventory",
              details |-> name,
              query |-> q])

\* faulty variant: fall back to the text search whenever fewer than n matches came
UseTextSearch_fewer(result, n) == Len(result) < n

\* if (result.length === 0)
UseTextSearch(result, n) == Len(result) = 0

\* faulty variant: the text search forgets .limit(n)
TextFind_noLimit(coll, q, n) == SelectSeq(coll, LAMBDA d : MatchesText(d, q))

\* the text query issued by the fallback
TextFind(coll, q, n) == TextSearch(coll, q, n)

\* faulty variant: the count reported is the size of the collection
CountOf_total(res, coll) == Len(coll)

\* count: result.length / textResult.length
CountOf(res, coll) == Len(res)

\* faulty variant: the emptiness check is missing
IsEmptyCount_never(totalCount) == FALSE

\* if (totalCount === 0)
IsEmptyCount(totalCount) == totalCount = 0

\* The handler, statement by statement: `out` is what it returns and `calls`
\* the provider calls it made, in order.
ItemLookup(coll, q, n, prov) ==
    LET cCount  == ProviderCall("countDocuments", prov.count, <<>>)
        cSample == ProviderCall("find", prov.sample, <<>>)
        cVector == ProviderCall("similaritySearchWithScore", prov.vectorOk,
                                IF prov.vectorOk THEN prov.vector ELSE <<>>)
        cText   == ProviderCall("textFind", prov.textOk,
                                IF prov.textOk THEN TextFind(coll, q, n)
                                               ELSE <<>>)
    IN
    IF ~prov.count
      THEN [out |-> CatchLookup(q, "countDocuments"), calls |-> <<cCount>>]
    ELSE IF IsEmptyCount(Len(coll))
      THEN [out |-> Returned(EmptyInventoryResult), calls |-> <<cCount>>]
    ELSE IF ~prov.sample
      THEN [out |-> CatchLookup(q, "find"), calls |-> <<cCount, cSample>>]
    ELSE IF ~prov.vectorOk
      THEN [out |-> CatchLookup(q, "similaritySearchWithScore"),
            calls |-> <<cCount, cSample, cVector>>]
    ELSE IF UseTextSearch(prov.vector, n)
      THEN IF ~prov.textOk
             THEN [out |-> CatchLookup(q, "textFind"),
                   calls |-> <<cCount, cSample, cVector, cText>>]
             ELSE [out |-> Returned([results |-> cText.out,
                                     searchType |-> "text",
                                     query |-> q,
                                     count |-> CountOf(cText.out, coll)]),
                   calls |-> <<cCount, cSample, cVector, cText>>]
    ELSE [out |-> Returned([results |-> prov.vector,
                            searchType |-> "vector",
                            query |-> q,
                            count |-> CountOf(prov.vector, coll)]),
          calls |-> <<cCount, cSample, cVector>>]

\* ------------------------------------------- SpecLookup: the handler alone
\* the model requests item_lookup(query, n)
LookupInvoke ==
    /\ lookupArgs = None
    /\ \E q \in Queries, n \in 1..MaxN :
         \E prov \in Providers(collection, n) :
            LET r == ItemLookup(collection, q, n, prov) IN
            /\ lookupArgs' = [query |-> q, n |-> n]
            /\ lookupOut' = r.out
            /\ lookupCalls' = r.calls
    /\ UNCHANGED <<collection, retryVars, agentVars, widgetVars>>

\* the inventory is seeded, restocked or emptied between two lookups
InventoryChange ==
    /\ lookupArgs = None
    /\ \E c \in Inventories \ {collection} : collection' = c
    /\ UNCHANGED <<lookupArgs, lookupOut, lookupCalls, retryVars, agentVars,
                   widgetVars>>

\* the tool node has taken the handler's output; the next request may come
LookupTaken ==
    /\ lookupArgs # None
    /\ lookupArgs' = None
    /\ lookupOut' = None
    /\ lookupCalls' = <<>>
    /\ UNCHANGED <<collection, retryVars, agentVars, widgetVars>>

InitLookup ==
    InitRetryVars /\ InitAgentVars /\ InitLookupVars /\ InitWidgetVars

NextLookup == LookupInvoke \/ InventoryChange \/ LookupTaken

SpecLookup == InitLookup /\ [][NextLookup]_vars

\* ================================================================ callAgent
\* faulty variant: the reducer keeps the update only
Reducer_replace(x, y) == y

\* reducer: (x, y) => x.concat(y)
Reducer(x, y) == x \o y

LastMessage(msgs) == msgs[Len(msgs)]

\* faulty variants of the routing after the agent node
ShouldContinue_byRole(msgs) ==
    IF LastMessage(msgs).role = "ai" THEN "tools" ELSE "__end__"
ShouldContinue_never(msgs) == "__end__"

\* shouldContinue: lastMessage.tool_calls?.length ? "tools" : "__end__"
ShouldContinue(msgs) ==
    IF LastMessage(msgs).tool_calls > 0 THEN "tools" ELSE "__end__"

\* the edges of the workflow: __start__ -> agent, agent -> shouldContinue,
\* tools -> agent
NextNode(n, msgs) ==
    IF n = "agent" THEN ShouldContinue(msgs) ELSE "agent"

\* faulty variant: the limit is never applied
OutOfSteps_never(s) == FALSE

\* faulty variant: the comparison with the limit is off by one
OutOfSteps_late(s) == s > RecursionLimit

\* recursionLimit: the graph stops with a GraphRecursionError once that many
\* steps (node executions) have run in this invocation.  The limit is tested
\* before the next node is looked for, so a turn whose 15th step is the
\* model's answer fails as well.
OutOfSteps(s) == s >= RecursionLimit

GraphRecursionError ==
    [kind |-> "thrown", isError |-> TRUE, hasStatus |-> FALSE, status |-> 0,
     msg |-> "Recursion limit reached", at |-> 0]

\* faulty variant: the catch block reports every error as a failed agent
CatchAgent_generic(e) == [kind |-> "agent_failed", msg |-> e.msg]

\* the catch block of callAgent: which error it throws for `e`
CatchAgent(e) ==
    IF e.isError /\ e.hasStatus /\ e.status = RateLimitStatus
      THEN [kind |-> "rate_limit",
            msg |-> "Service temporarily unavailable due to rate limits"]
    ELSE IF e.isError /\ e.hasStatus /\ e.status = AuthStatus
      THEN [kind |-> "auth", msg |-> "Authentication failed"]
    ELSE [kind |-> "agent_failed", msg |-> e.msg]

\* finalState.messages[finalState.messages.length - 1].content
FinalResponse(msgs) == LastMessage(msgs).content

\* return response
Reply(c) == [kind |-> "reply", content |-> c]

\* the arguments of the tool-call requests the model writes
AgentQuery == <<"b">>
AgentN == 1

\* callAgent(client, message, id): app.invoke appends the user message to the
\* thread's checkpointed messages and starts the graph
CallAgent ==
    /\ pc = "idle"
    /\ messages' = Reducer(messages, <<HumanMessage>>)
    /\ base' = Len(messages)
    /\ steps' = 0
    /\ node' = "__start__"
    /\ pc' = "tick"
    /\ UNCHANGED <<toolIdx, toolOut, reply, failure, modelInvocations,
                   toolInvocations, modelFailures>>
    /\ UNCHANGED <<retryVars, lookupVars, widgetVars>>

\* the step limit is hit: app.invoke rejects, callAgent's catch rethrows
GraphOutOfSteps ==
    /\ pc = "tick"
    /\ OutOfSteps(steps)
    /\ pc' = "failed"
    /\ failure' = CatchAgent(GraphRecursionError)
    /\ UNCHANGED <<node, messages, base, steps, toolIdx, toolOut, reply,
                   modelInvocations, toolInvocations, modelFailures>>
    /\ UNCHANGED <<retryVars, lookupVars, widgetVars>>

\* the agent node is scheduled: callModel calls retryWithBackoff(fn)
GraphToAgent ==
    /\ pc = "tick"
    /\ ~OutOfSteps(steps)
    /\ NextNode(node, messages) = "agent"
    /\ pc' = "agent"
    /\ RetryEnter(DefaultMaxRetries)
    /\ UNCHANGED <<node, messages, base, steps, toolIdx, toolOut, reply,
                   failure, modelInvocations, toolInvocations,
                   modelFailures>>
    /\ UNCHANGED <<lookupVars, widgetVars>>

\* the tools node is scheduled
GraphToTools ==
    /\ pc = "tick"
    /\ ~OutOfSteps(steps)
    /\ NextNode(node, messages) = "tools"
    /\ pc' = "tools"
    /\ toolIdx' = 0
    /\ toolOut' = <<>>
    /\ UNCHANGED <<node, messages, base, steps, reply, failure,
                   modelInvocations, toolInvocations, modelFailures>>
    /\ UNCHANGED <<retryVars, lookupVars, widgetVars>>

\* no node is left to run: app.invoke resolves and callAgent returns the
\* content of the last message
GraphEnd ==
    /\ pc = "tick"
    /\ ~OutOfSteps(steps)
    /\ NextNode(node, messages) = "__end__"
    /\ pc' = "done"
    /\ reply' = Reply(FinalResponse(messages))
    /\ UNCHANGED <<node, messages, base, steps, toolIdx, toolOut, failure,
                   modelInvocations, toolInvocations, modelFailures>>
    /\ UNCHANGED <<retryVars, lookupVars, widgetVars>>

\* model.invoke(formattedPrompt) inside the wrapper, one attempt
AgentModelCall ==
    /\ pc = "agent"
    /\ \E out \in FnOutcomes(attempt) :
         /\ RetryAttempt(out)
         /\ modelFailures' = IF out.kind = "ok" THEN modelFailures
                                                ELSE modelFailures + 1
    /\ modelInvocations' = modelInvocations + 1
    /\ UNCHANGED <<pc, node, messages, base, steps, toolIdx, toolOut, reply,
                   failure, toolInvocations>>
    /\ UNCHANGED <<lookupVars, widgetVars>>

\* the backoff timer of the wrapper fires
AgentBackoff ==
    /\ pc = "agent"
    /\ RetryWake
    /\ UNCHANGED <<agentVars, lookupVars, widgetVars>>

\* callModel resolves with { messages: [result] }; the reducer appends it
AgentReturn ==
    /\ pc = "agent"
    /\ rpc = "returned"
    /\ messages' = Reducer(messages, <<rvalue>>)
    /\ steps' = steps + 1
    /\ node' = "agent"
    /\ pc' = "tick"
    /\ RetryLeave
    /\ UNCHANGED <<base, toolIdx, toolOut, reply, failure, modelInvocations,
                   toolInvocations, modelFailures>>
    /\ UNCHANGED <<lookupVars, widgetVars>>

\* callModel rejects: the error leaves app.invoke and reaches the catch block
AgentThrow ==
    /\ pc = "agent"
    /\ rpc = "thrown"
    /\ pc' = "failed"
    /\ failure' = CatchAgent(rvalue)
    /\ UNCHANGED <<node, messages, base, steps, toolIdx, toolOut, reply,
                   modelInvocations, toolInvocations, modelFailures>>
    /\ UNCHANGED retryVars
    /\ UNCHANGED <<lookupVars, widgetVars>>

\* faulty variant: only the first tool-call request is served
AllCallsServed_first(idx, msg) == idx >= 1

\* the tool node has served every tool-call request of the AI message
AllCallsServed(idx, msg) == idx >= msg.tool_calls

\* the tool node runs the handler for the next tool-call request of the last
\* AI message and keeps its output as a ToolMessage (an error message, had
\* the handler thrown)
ToolInvoke ==
    /\ pc = "tools"
    /\ ~AllCallsServed(toolIdx, LastMessage(messages))
    /\ \E prov \in Providers(collection, AgentN) :
         LET r == ItemLookup(collection, AgentQuery, AgentN, prov) IN
         toolOut' = Append(toolOut,
                      ToolMessage(IF r.out.kind = "returned"
                                    THEN "json" ELSE "error"))
    /\ toolIdx' = toolIdx + 1
    /\ toolInvocations' = toolInvocations + 1
    /\ UNCHANGED <<pc, node, messages, base, steps, reply, failure,
                   modelInvocations, modelFailures>>
    /\ UNCHANGED <<retryVars, lookupVars, widgetVars>>

\* the tool node resolves with { messages: [...] }; the reducer appends them
ToolsReturn ==
    /\ pc = "tools"
    /\ AllCallsServed(toolIdx, LastMessage(messages))
    /\ messages' = Reducer(messages, toolOut)
    /\ steps' = steps + 1
    /\ node' = "tools"
    /\ pc' = "tick"
    /\ UNCHANGED <<base, toolIdx, toolOut, reply, failure, modelInvocations,
                   toolInvocations, modelFailures>>
    /\ UNCHANGED <<retryVars, lookupVars, widgetVars>>

\* The thread as earlier turns left it: new, after an answered turn, after a
\* turn that failed behind a tool round.
PriorThreads ==
    { <<>>,
      <<HumanMessage, AIMessage(0, "answer-a")>>,
      <<HumanMessage, AIMessage(1, ""), ToolMessage("json")>> }

Init ==
    /\ InitRetryVars
    /\ pc = "idle"
    /\ node = "__start__"
    /\ messages \in PriorThreads
    /\ base = Len(messages)
    /\ steps = 0
    /\ toolIdx = 0
    /\ toolOut = <<>>
    /\ reply = None
    /\ failure = None
    /\ modelInvocations = 0
    /\ toolInvocations = 0
    /\ modelFailures = 0
    /\ collection = Catalogue
    /\ lookupArgs = None
    /\ lookupOut = None
    /\ lookupCalls = <<>>
    /\ InitWidgetVars

Next ==
    \/ CallAgent
    \/ GraphOutOfSteps
    \/ GraphToAgent
    \/ GraphToTools
    \/ GraphEnd
    \/ AgentModelCall
    \/ AgentBackoff
    \/ AgentReturn
    \/ AgentThrow
    \/ ToolInvoke
    \/ ToolsReturn

Spec == Init /\ [][Next]_vars

\* =============================================================== ChatWidget
\* what the user can type
Texts == {"", "sofa"}

Greeting ==
    [text |-> "Hello! I'm yout shoppping assistant. How can I help you today?",
     isAgent |-> TRUE]

UserMessage(t) == [text |-> t, isAgent |-> FALSE]

\* agentResponse = { text: data.response, isAgent: true, threadId }
AgentResponse(tid) == [text |-> "response", isAgent |-> TRUE, threadId |-> tid]

Thread(i) == [kind |-> "thread", id |-> i]

\* endpoint = threadId ? `http://localhost:8000/chat${threadId}`
\*                     : "http://localhost:8000/chat"
Endpoint(tid) ==
    IF tid # None THEN [path |-> "chat", thread |-> tid]
                  ELSE [path |-> "chat", thread |-> None]

\* data.threadId of a response body: whatever the server put there
ResponseThreads == {None} \cup { Thread(i) : i \in 1..2 }

\* faulty variant: a failed request shows an error bubble
OnFailure_errorBubble(msgs) ==
    Append(msgs, [text |-> "error", isAgent |-> TRUE])

\* catch (error) { console.error(error) }
OnFailure(msgs) == msgs

\* toggleChat, and the effect that greets when the chat opens empty
ToggleChat ==
    /\ isOpen' = ~isOpen
    /\ wMessages' = IF isOpen' /\ Len(wMessages) = 0 THEN <<Greeting>>
                                                    ELSE wMessages
    /\ UNCHANGED <<inputValue, threadId, requests, pending, succeeded, failed>>
    /\ UNCHANGED <<retryVars, agentVars, lookupVars>>

\* handleInputChange
HandleInputChange ==
    /\ isOpen
    /\ \E t \in Texts \ {inputValue} : inputValue' = t
    /\ UNCHANGED <<isOpen, wMessages, threadId, requests, pending, succeeded,
                   failed>>
    /\ UNCHANGED <<retryVars, agentVars, lookupVars>>

\* handleMessage up to the await of fetch: the user's message is shown, the
\* input is cleared, and the request leaves for the endpoint chosen from the
\* thread id of the current render
HandleMessage ==
    /\ isOpen
    /\ Len(requests) < MaxSubmits
    /\ wMessages' = Append(wMessages, UserMessage(inputValue))
    /\ inputValue' = ""
    /\ requests' = Append(requests,
                     [endpoint |-> Endpoint(threadId),
                      message |-> inputValue])
    /\ pending' = pending \cup {Len(requests) + 1}
    /\ UNCHANGED <<isOpen, threadId, succeeded, failed>>
    /\ UNCHANGED <<retryVars, agentVars, lookupVars>>

\* the fetch of request i resolves with an OK response whose body parses
ResponseOk ==
    /\ \E i \in pending, tid \in ResponseThreads :
         /\ wMessages' = Append(wMessages, AgentResponse(tid))
         /\ threadId' = tid
         /\ pending' = pending \ {i}
    /\ succeeded' = succeeded + 1
    /\ UNCHANGED <<isOpen, inputValue, requests, failed>>
    /\ UNCHANGED <<retryVars, agentVars, lookupVars>>

\* the fetch of request i rejects, or the response is not OK, or its body
\* does not parse: the catch block runs
ResponseFail ==
    /\ \E i \in pending : pending' = pending \ {i}
    /\ wMessages' = OnFailure(wMessages)
    /\ failed' = failed + 1
    /\ UNCHANGED <<isOpen, inputValue, threadId, requests, succeeded>>
    /\ UNCHANGED <<retryVars, agentVars, lookupVars>>

InitWidget ==
    InitRetryVars /\ InitAgentVars /\ InitLookupVars /\ InitWidgetVars

NextWidget ==
    \/ ToggleChat
    \/ HandleInputChange
    \/ HandleMessage
    \/ ResponseOk
    \/ ResponseFail

SpecWidget == InitWidget /\ [][NextWidget]_vars

\* ------------------------------------------------- claims on the wrapper
\* the latest invocation of fn() failed / failed with a rate limit
FnFailed == lastOut.kind = "thrown"
FnRateLimited == FnFailed /\ IsRateLimit(lastOut)

\* C3: a failure of fn() that is not a rate-limit failure, on whichever
\* attempt it occurs, ends the wrapper at once: that same error is thrown to
\* the caller, fn() is not invoked again (fnCalls stays at the attempt that
\* raised it) and no delay is taken for it (one delay per earlier attempt).
C3_NonRateLimitPropagates ==
    (FnFailed /\ ~IsRateLimit(lastOut)) =>
        /\ rpc = "thrown"
        /\ rvalue = lastOut
        /\ fnCalls = lastOut.at
        /\ Len(delays) = lastOut.at - 1

\* an authentication failure on the second attempt has propagated
C3_Witness ==
    /\ rpc = "thrown"
    /\ FnFailed
    /\ lastOut.status = AuthStatus
    /\ lastOut.at = 2
    /\ maxRetries = DefaultMaxRetries

\* fn() was rate-limited on every one of the maxRetries attempts
Exhausted ==
    /\ rpc = "thrown"
    /\ maxRetries >= 1
    /\ fnCalls = maxRetries
    /\ FnRateLimited

\* C4 as stated: after maxAttempts consecutive rate-limit failures the
\* wrapper fails with a distinct exhaustion error, not with the raw provider
\* error.
C4_DistinctExhaustedError ==
    Exhausted => (rvalue # lastOut /\ rvalue.msg = "Max retries exceeded")

\* C4 amended: after maxAttempts consecutive rate-limit failures the wrapper
\* rethrows the last underlying rate-limit error itself, status 429 intact,
\* after exactly maxAttempts invocations and maxAttempts - 1 delays.
C4_RethrowsLastRateLimit ==
    Exhausted =>
        /\ rvalue = lastOut
        /\ IsRateLimit(rvalue)
        /\ rvalue.at = maxRetries
        /\ Len(delays) = maxRetries - 1

C4_Witness ==
    /\ Exhausted
    /\ maxRetries = DefaultMaxRetries
    /\ Len(delays) = 2

\* C5 as stated: the delay waited immediately before attempt k equals
\* min(1000 * 2^k, 30000) ms.
C5_DelayBeforeAttemptK ==
    \A i \in DOMAIN delays :
        delays[i].ms = Min(1000 * (2 ^ delays[i].before), 30000)

\* C5 amended: the i-th delay is the one before attempt k = i + 1, and it
\* equals min(1000 * 2^(k-1), 30000) ms: 2000 before attempt 2, 4000 before
\* attempt 3, capped at 30000.
C5_DelayBeforeAttemptKMinusOne ==
    \A i \in DOMAIN delays :
        /\ delays[i].before = i + 1
        /\ delays[i].before <= maxRetries
        /\ delays[i].ms = Min(1000 * (2 ^ (delays[i].before - 1)), 30000)

\* the cap is reached: the delay before attempt 6 is 30000, not 32000
C5_Witness ==
    /\ Len(delays) = 5
    /\ delays[1].ms = 2000
    /\ delays[2].ms = 4000
    /\ delays[5].ms = 30000

\* C6: fn() is invoked at most maxRetries times; a rate-limit failure on an
\* attempt before the last one is followed by another attempt; and a
\* success, on whichever attempt (the last included), is returned.
C6_AtMostMaxAttempts ==
    /\ fnCalls <= maxRetries
    /\ (FnRateLimited /\ lastOut.at < maxRetries) => rpc \in {"sleep", "loop"}
    /\ (lastOut.kind = "ok") => (rpc = "returned" /\ rvalue = lastOut.value)

\* rate-limited on attempts 1 and 2, success on attempt 3 of 3
C6_Witness ==
    /\ maxRetries = 3
    /\ fnCalls = 3
    /\ Len(delays) = 2
    /\ rpc = "returned"
    /\ rvalue = lastOut.value

\* ------------------------------------------------- claims on item_lookup
Invoked == lookupArgs # None
Has(r, f) == f \in DOMAIN r
SomeCallFailed == \E i \in DOMAIN lookupCalls : ~lookupCalls[i].ok
CallsOf(name) == { i \in DOMAIN lookupCalls : lookupCalls[i].call = name }

\* C8: the handler never throws: whichever provider call fails (document
\* count, sample find, vector search, text search), the handler returns a
\* result carrying an error field and the failure's message.
C8_LookupNeverThrows ==
    Invoked =>
        /\ lookupOut.kind = "returned"
        /\ SomeCallFailed =>
             /\ Has(lookupOut.value, "error")
             /\ Has(lookupOut.value, "details")
             /\ lookupOut.value.details =
                    lookupCalls[Len(lookupCalls)].call

\* the text search itself failed and an error result came back
C8_Witness ==
    /\ Invoked
    /\ Len(lookupCalls) = 4
    /\ lookupCalls[4].call = "textFind"
    /\ ~lookupCalls[4].ok
    /\ lookupOut.kind = "returned"
    /\ Has(lookupOut.value, "error")

ShapeSearch(v) ==
    /\ Has(v, "searchType") /\ Has(v, "results") /\ Has(v, "count")
    /\ v.searchType \in {"vector", "text"}
    /\ v.count = Len(v.results)

ShapeEmpty(v) ==
    /\ DOMAIN v = {"error", "message", "count"}
    /\ v.error = "No items found in inventory"
    /\ v.count = 0

ShapeFailure(v) ==
    /\ DOMAIN v = {"error", "details", "query"}
    /\ v.error = "Failde to seach inventory"
    /\ v.query = lookupArgs.query

\* C9 as stated: every result has searchType in {vector, text} with count
\* equal to the length of results, or (only for an empty inventory) is the
\* empty-inventory error with count 0; nothing else is returned.
C9_TwoShapesOnly ==
    Invoked =>
        /\ lookupOut.kind = "returned"
        /\ \/ ShapeSearch(lookupOut.value)
           \/ Len(collection) = 0 /\ ShapeEmpty(lookupOut.value)

\* C9 amended: a third shape exists.  When a provider call of the handler
\* fails the result is the failure error (error, details, query; no count,
\* no searchType); otherwise it is the empty-inventory error with count 0
\* exactly when the inventory is empty, and else a result with searchType in
\* {vector, text} and count equal to the length of results.
C9_ThreeShapes ==
    Invoked =>
        /\ lookupOut.kind = "returned"
        /\ IF SomeCallFailed THEN ShapeFailure(lookupOut.value)
           ELSE IF Len(collection) = 0 THEN ShapeEmpty(lookupOut.value)
           ELSE ShapeSearch(lookupOut.value)

\* two vector matches came back out of a larger inventory
C9_Witness ==
    /\ Invoked
    /\ lookupOut.kind = "returned"
    /\ Has(lookupOut.value, "searchType")
    /\ lookupOut.value.searchType = "vector"
    /\ lookupOut.value.count = 2
    /\ Len(collection) = 3

NumMatching(q) ==
    Cardinality({ i \in DOMAIN collection : MatchesText(collection[i], q) })

\* C10: the text search runs if and only if the vector search ran and
\* resolved to zero matches.  One or more vector matches are returned as they
\* came, marked vector; with zero vector matches the matches of the text
\* search are returned, marked text: documents of the inventory that contain
\* the query, as many as there are up to n.
C10_TextSearchIffNoVectorMatch ==
    Invoked =>
        /\ (CallsOf("textFind") # {}) <=>
              (\E i \in CallsOf("similaritySearchWithScore") :
                  lookupCalls[i].ok /\ Len(lookupCalls[i].out) = 0)
        /\ \A i \in CallsOf("similaritySearchWithScore") :
              (lookupCalls[i].ok /\ Len(lookupCalls[i].out) >= 1) =>
                  /\ lookupOut.value.searchType = "vector"
                  /\ lookupOut.value.results = lookupCalls[i].out
        /\ \A i \in CallsOf("textFind") :
              lookupCalls[i].ok =>
                  /\ lookupOut.value.searchType = "text"
                  /\ lookupOut.value.results = lookupCalls[i].out
                  /\ Len(lookupCalls[i].out) =
                        Min(lookupArgs.n, NumMatching(lookupArgs.query))
                  /\ \A j \in DOMAIN lookupCalls[i].out :
                        /\ MatchesText(lookupCalls[i].out[j], lookupArgs.query)
                        /\ \E k \in DOMAIN collection :
                              collection[k] = lookupCalls[i].out[j]

\* the fallback ran and was cut to n = 2 of the three matching documents
C10_Witness ==
    /\ Invoked
    /\ lookupOut.kind = "returned"
    /\ Has(lookupOut.value, "searchType")
    /\ lookupOut.value.searchType = "text"
    /\ lookupArgs.n = 2
    /\ lookupOut.value.count = 2
    /\ NumMatching(lookupArgs.query) = 3

\* C11: when the inventory is empty the handler makes no search call at all:
\* the document count is its only provider call, and once the count has come
\* back as zero the result is the empty-inventory error with count 0.
C11_EmptyInventoryNoSearch ==
    (Invoked /\ Len(collection) = 0) =>
        /\ CallsOf("similaritySearchWithScore") = {}
        /\ CallsOf("textFind") = {}
        /\ CallsOf("find") = {}
        /\ Len(lookupCalls) = 1
        /\ lookupCalls[1].call = "countDocuments"
        /\ lookupCalls[1].ok =>
              /\ lookupOut = Returned(EmptyInventoryResult)
              /\ Has(lookupOut.value, "error")
              /\ lookupOut.value.count = 0

\* a lookup on the empty collection has answered
C11_Witness ==
    /\ Invoked
    /\ Len(collection) = 0
    /\ lookupCalls = <<ProviderCall("countDocuments", TRUE, <<>>)>>
    /\ lookupOut.kind = "returned"
    /\ lookupOut.value.count = 0

\* ---------------------------------------------------- claims on callAgent
\* the messages this turn added to the thread, and the model's among them
TurnMessages == SubSeq(messages, base + 1, Len(messages))
Responses == SelectSeq(TurnMessages, LAMBDA m : m.role = "ai")
TurnOver == pc \in {"done", "failed"}

\* every model invocation of the turn so far was answered, and with a
\* tool-call request
OnlyToolCalls ==
    /\ modelInvocations > 0
    /\ modelFailures = 0
    /\ \A i \in DOMAIN Responses : Responses[i].tool_calls > 0
    /\ (pc = "agent" /\ rpc = "returned") => rvalue.tool_calls > 0

LoopLimitFailure ==
    /\ pc = "failed"
    /\ failure = [kind |-> "agent_failed", msg |-> "Recursion limit reached"]
    /\ reply = None

\* C1 as stated: when the model answers every invocation with a tool-call
\* request, the turn ends in a loop-limit failure after the model has been
\* invoked exactly 15 times (one cycle per invocation), never more, and no
\* reply is returned.
C1_FifteenCycles ==
    /\ OnlyToolCalls => modelInvocations <= RecursionLimit
    /\ (TurnOver /\ OnlyToolCalls) =>
          (LoopLimitFailure /\ modelInvocations = RecursionLimit)

\* C1 amended: the limit of 15 counts graph steps, and the agent node and
\* the tool node are one step each.  When the model answers every invocation
\* with a tool-call request the turn ends in a loop-limit failure after
\* exactly 15 steps: 8 model invocations, never more, and 7 runs of the tool
\* node; no reply is returned.
C1_FifteenSteps ==
    /\ OnlyToolCalls => modelInvocations <= 8
    /\ (TurnOver /\ OnlyToolCalls) =>
          /\ LoopLimitFailure
          /\ steps = 15
          /\ modelInvocations = 8
          /\ Len(Responses) = 8
          /\ steps - Len(Responses) = 7

C1_Witness ==
    /\ LoopLimitFailure
    /\ OnlyToolCalls
    /\ modelInvocations = 8
    /\ toolInvocations >= 7

\* the model asked for one tool call on its first invocation and gave a
\* plain answer on its second
OneCallThenAnswer ==
    /\ modelFailures = 0
    /\ Len(Responses) >= 2
    /\ Responses[1].tool_calls = 1
    /\ Responses[2].tool_calls = 0

\* C2: when the model asks for one tool call on its first invocation and
\* answers plainly on its second, the handler is invoked exactly once, the
\* model exactly twice, the turn does not fail, and the thread gains exactly
\* the user message, the tool-call message, the tool result and, once, the
\* final answer, which is the reply.
C2_OneToolRoundTrip ==
    OneCallThenAnswer =>
        /\ modelInvocations = 2
        /\ toolInvocations = 1
        /\ pc \in {"tick", "done"}
        /\ TurnMessages = <<HumanMessage, AIMessage(1, ""),
                            ToolMessage("json"), Responses[2]>>
        /\ pc = "done" => reply = Reply(Responses[2].content)

\* the end-to-end scenario on a new thread: four messages
C2_Witness ==
    /\ pc = "done"
    /\ OneCallThenAnswer
    /\ base = 0
    /\ Len(messages) = 4
    /\ reply = Reply("answer-a")

\* C7: a reply is returned only by a turn that ended normally, and it is the
\* content of the last message of the history, an assistant message with no
\* tool-call request; a failed turn returns no reply.
C7_ReplyIsFinalAnswer ==
    /\ reply # None =>
          /\ pc = "done"
          /\ failure = None
          /\ LastMessage(messages).role = "ai"
          /\ LastMessage(messages).tool_calls = 0
          /\ reply = Reply(LastMessage(messages).content)
    /\ pc = "done" => reply # None
    /\ pc = "failed" => (reply = None /\ failure # None)

\* an answer returned after a tool round with a batch of requests
C7_Witness ==
    /\ pc = "done"
    /\ reply = Reply("answer-b")
    /\ toolInvocations >= 2
    /\ modelFailures >= 1

\* C12: when a model call is rate-limited on every attempt of the wrapper,
\* the turn fails, and what callAgent throws is the rate-limit error
\* ("temporarily unavailable"), not the generic "Agent failed" error; no
\* reply is returned.
C12_RateLimitSurfaces ==
    Exhausted =>
        /\ pc \in {"agent", "failed"}
        /\ reply = None
        /\ pc = "failed" =>
              failure = [kind |-> "rate_limit",
                         msg |-> "Service temporarily unavailable due to rate limits"]

\* the third attempt of a later cycle was rate-limited too
C12_Witness ==
    /\ pc = "failed"
    /\ Exhausted
    /\ failure.kind = "rate_limit"
    /\ modelInvocations >= 4
    /\ toolInvocations >= 1

\* the latest model call failed with an authentication failure
AuthFailed ==
    /\ FnFailed
    /\ lastOut.isError /\ lastOut.hasStatus /\ lastOut.status = AuthStatus

\* C13: an authentication failure (status 401) of a model call is final for
\* the turn: the wrapper throws it at once, nothing is invoked afterwards (no
\* model call, no tool call, no further graph step), and callAgent throws the
\* authentication error and returns no reply.
C13_AuthFailureIsFatal ==
    /\ [](AuthFailed =>
            /\ rpc = "thrown"
            /\ rvalue = lastOut
            /\ pc \in {"agent", "failed"}
            /\ reply = None
            /\ pc = "failed" =>
                  failure = [kind |-> "auth", msg |-> "Authentication failed"])
    /\ [][AuthFailed =>
            /\ AuthFailed'
            /\ modelInvocations' = modelInvocations
            /\ toolInvocations' = toolInvocations
            /\ steps' = steps
            /\ messages' = messages]_vars

\* the authentication failure came after a rate limit and a tool round
C13_Witness ==
    /\ pc = "failed"
    /\ AuthFailed
    /\ failure.kind = "auth"
    /\ lastOut.at = 2
    /\ toolInvocations >= 1

\* the AI message at position i of the thread has all its tool-call requests
\* answered: a tool message for each follows it
Answered(i) ==
    /\ i + messages[i].tool_calls <= Len(messages)
    /\ \A j \in 1..messages[i].tool_calls : messages[i + j].role = "tool"

\* C14: within a turn, every tool-call request of a model response has its
\* tool-result message in the history before the model is invoked again: while
\* the agent node runs, each AI message of the turn is answered in full, and
\* an unanswered one can only be the last message, outside the agent node.
C14_ToolResultsBeforeNextCall ==
    \A i \in (base + 1)..Len(messages) :
        (messages[i].role = "ai" /\ messages[i].tool_calls > 0) =>
            \/ Answered(i)
            \/ i = Len(messages) /\ pc # "agent"

\* the model is being invoked again after a batch of two requests
C14_Witness ==
    /\ pc = "agent"
    /\ rpc = "loop"
    /\ Len(messages) >= base + 4
    /\ messages[Len(messages) - 2].tool_calls = 2
    /\ messages[Len(messages) - 1].role = "tool"
    /\ messages[Len(messages)].role = "tool"

IsPrefix(a, b) == Len(a) <= Len(b) /\ SubSeq(b, 1, Len(a)) = a

\* C15: the history is append-only: at every step of a turn (the input, the
\* agent node, the tool node) the old message sequence is a prefix of the new
\* one.
C15_AppendOnly == [][IsPrefix(messages, messages')]_vars

\* an older thread has grown by a user message, a request and its results
C15_Witness ==
    /\ base = 3
    /\ Len(messages) >= base + 4
    /\ messages[3].role = "tool"
    /\ messages[4].role = "human"

RECURSIVE SumCalls(_)
SumCalls(sq) ==
    IF sq = <<>> THEN 0 ELSE Head(sq).tool_calls + SumCalls(Tail(sq))

NumToolMessages ==
    Len(SelectSeq(TurnMessages, LAMBDA m : m.role = "tool"))

\* requests served so far: results in the history and in the running node
Served == NumToolMessages + (IF pc = "tools" THEN toolIdx ELSE 0)

\* C16: every cycle's model call gets its own wrapper call with a budget of 3
\* attempts, whatever failed in earlier cycles; the wrapper is idle while the
\* tool node runs, and the handler runs exactly once per tool-call request.
C16_RetryPerModelCallOnly ==
    /\ [](pc = "agent" =>
            /\ maxRetries = DefaultMaxRetries
            /\ fnCalls <= DefaultMaxRetries
            /\ Len(delays) <= fnCalls
            /\ rpc = "loop" => (attempt = fnCalls + 1
                                /\ attempt <= DefaultMaxRetries))
    /\ [][(pc = "tick" /\ pc' = "agent") =>
            (attempt' = 1 /\ fnCalls' = 0 /\ delays' = <<>>
             /\ maxRetries' = DefaultMaxRetries)]_vars
    /\ [](pc = "tools" => (rpc = "idle" /\ fnCalls = 0 /\ delays = <<>>))
    /\ [](/\ toolInvocations = Served
          /\ Served <= SumCalls(Responses)
          /\ pc = "agent" => Served = SumCalls(Responses))
    /\ [][pc = "tools" => toolInvocations' <= toolInvocations + 1]_vars

\* a cycle uses all three attempts after an earlier cycle had used two
C16_Witness ==
    /\ pc = "agent"
    /\ fnCalls = 3
    /\ modelFailures >= 3
    /\ modelInvocations >= 5
    /\ toolInvocations >= 2

RECURSIVE SumDelays(_)
SumDelays(sq) == IF sq = <<>> THEN 0 ELSE Head(sq).ms + SumDelays(Tail(sq))

\* C17: for maxAttempts = 3 and a rate limit on every attempt, the time the
\* wrapper has waited in total before it fails is at least 3000 ms and at
\* most the cap of 30000 ms.
C17_TotalWaitWithinBounds ==
    (Exhausted /\ maxRetries = 3) =>
        /\ SumDelays(delays) >= 3000
        /\ SumDelays(delays) <= 30000

\* the wrapper has failed after waiting 2000 + 4000 ms
C17_Witness ==
    /\ Exhausted
    /\ maxRetries = 3
    /\ SumDelays(delays) = 6000

\* --------------------------------------------------- termination of a turn
\* Every provider call eventually resolves or rejects and every timer fires:
\* a step that can be taken is eventually taken.
FairSpec == Spec /\ WF_vars(Next)

\* C18: every turn terminates, with a reply or with an error, whatever the
\* model answers; the steps of a turn never exceed the limit and a wrapper
\* call never exceeds its attempts, so the model invocations of a turn stay
\* within (limit) x (attempts).
C18_TurnTerminates ==
    /\ (pc = "tick") ~> TurnOver
    /\ [](/\ steps <= RecursionLimit
          /\ fnCalls <= DefaultMaxRetries
          /\ modelInvocations <= RecursionLimit * DefaultMaxRetries)

\* a turn that used every attempt of every cycle has ended
C18_Witness ==
    /\ TurnOver
    /\ steps = RecursionLimit
    /\ modelInvocations = 24

\* -------------------------------------------------- claims on the ChatWidget
Threadless == { i \in DOMAIN requests : requests[i].endpoint.thread = None }

\* C19: under any interleaving of submissions and responses at most one
\* request of a widget session is sent to the thread-less endpoint.
C19_AtMostOneThreadless == Cardinality(Threadless) <= 1

NumAgentMessages ==
    Len(SelectSeq(wMessages, LAMBDA m : m.isAgent /\ m # Greeting))
NumUserMessages == Len(SelectSeq(wMessages, LAMBDA m : ~m.isAgent))

\* C20: a submission appends the user's message once and leaves the thread
\* id alone; a request that fails changes neither the messages nor the thread
\* id; an agent message is appended, and the thread id set, only by the
\* handling of a successful response (the greeting of the opening chat is no
\* response).
C20_FailureLeavesNoTrace ==
    /\ [](/\ NumUserMessages = Len(requests)
          /\ NumAgentMessages = succeeded
          /\ Len(requests) = succeeded + failed + Cardinality(pending))
    /\ [][/\ (Len(requests') > Len(requests)) =>
                /\ wMessages' = Append(wMessages,
                                  UserMessage(requests'[Len(requests')].message))
                /\ threadId' = threadId
          /\ (failed' > failed) =>
                (wMessages' = wMessages /\ threadId' = threadId)
          /\ (threadId' # threadId \/ NumAgentMessages' > NumAgentMessages) =>
                (succeeded' = succeeded + 1
                 /\ wMessages' = Append(wMessages, AgentResponse(threadId')))
         ]_vars

\* a request failed after another had succeeded
C20_Witness ==
    /\ failed >= 1
    /\ succeeded >= 1
    /\ threadId # None
    /\ NumUserMessages = 3
    /\ NumAgentMessages = 1

====
